---- MODULE Spec2Model ----
(***************************************************************************)
(* A model of the lexer of src/compiler/lexer.rs: the ReadState machine of *)
(* consume, the lexeme classification, and the decrement merge pass of     *)
(* postprocess_tokens, as lex runs them; and of the emitter of             *)
(* src/compiler/emitter.rs: the walk of emit_program over a program tree,  *)
(* appending to the output buffer.                                         *)
(*                                                                         *)
(* A source text is a sequence of one-character strings.  remaining_chars  *)
(* (a Chars iterator over the text) is the text together with pos, the     *)
(* number of characters next() has returned so far.  A panic (panic!,      *)
(* expect, an index out of bounds, an arithmetic overflow of a debug       *)
(* build) ends the run in pc = "panicked" with its message in panic.       *)
(***************************************************************************)
EXTENDS Integers, Sequences, FiniteSets, TLC

VARIABLES
    src,            \* the text handed to lex
    pos,            \* remaining_chars: characters consumed by next() so far
    state,          \* the ReadState variant
    current_value,  \* Building.current_value
    token,          \* Done.token
    comment_value,  \* HandlingComment.comment_value
    vec,            \* consume's vec
    pc,             \* "consume", "postprocess", "returned" or "panicked"
    panic,          \* the panic message, "" while none
    tokens,         \* postprocess_tokens' tokens
    i,              \* postprocess_tokens' i
    length,         \* postprocess_tokens' length
    input,          \* history: the sequence postprocess_tokens was called with
    merges,         \* history: merges performed by the pass so far
    reads,          \* history: every next() and peek() on remaining_chars
    tok_start,      \* history: position of the first character of the token in progress
    starts,         \* history: for each token of vec, the position it starts at
    a_program,      \* the tree handed to emit_program: a function name and its instructions
    output,         \* the output buffer, a sequence of pieces of text; "\n" is a piece
    epc,            \* the emitter: "idle", "function", "prologue", "instructions",
                    \* "trailer", "done" or "panicked"
    idx,            \* instructions of the function the for loop has taken so far
    run,            \* which call of emit_program on the tree this is: 1 or 2 (0 when idle)
    output0,        \* history: the buffer as emit_program received it
    first_output    \* history: the buffer the first call ended with

vars == <<src, pos, state, current_value, token, comment_value, vec, pc, panic,
          tokens, i, length, input, merges, reads, tok_start, starts,
          a_program, output, epc, idx, run, output0, first_output>>

consumeVars == <<src, pos, state, current_value, token, comment_value, vec,
                 reads, tok_start, starts>>

postVars == <<tokens, i, length, input, merges>>

emitVars == <<a_program, output, epc, idx, run, output0, first_output>>

lexVars == <<src, pos, state, current_value, token, comment_value, vec, pc, panic,
             tokens, i, length, input, merges, reads, tok_start, starts>>

\* no emit_program call is in progress
EmitIdle ==
    /\ a_program = [name |-> "", instructions |-> <<>>]
    /\ output = <<>>
    /\ epc = "idle"
    /\ idx = 0
    /\ run = 0
    /\ output0 = <<>>
    /\ first_output = <<>>

(***************************************************************************)
(* Bounds of the model.                                                    *)
(***************************************************************************)
\* longest text over Alphabet that is enumerated
MaxLen == 5
\* longest text over WordAlphabet that is enumerated
MaxWord == 3
\* longest token sequence handed directly to postprocess_tokens
MaxToks == 5

\* usize::MAX.  It is 2^64 - 1 on a 64-bit target; TLC's integers are 32-bit,
\* so the largest of them stands for it.  Only its being larger than every
\* index of the model matters.
UsizeMax == 2147483647

(***************************************************************************)
(* Characters.                                                             *)
(***************************************************************************)
Lower == {"a","b","c","d","e","f","g","h","i","j","k","l","m",
          "n","o","p","q","r","s","t","u","v","w","x","y","z"}

Upper == {"A","B","C","D","E","F","G","H","I","J","K","L","M",
          "N","O","P","Q","R","S","T","U","V","W","X","Y","Z"}

Digits == {"0","1","2","3","4","5","6","7","8","9"}

\* the characters the exhaustive enumeration draws from
Alphabet == {"a", "1", " ", "\n", "/", "*", "-", ";"}

\* the characters the enumeration of single lexemes draws from
WordAlphabet == {"i", "n", "t", "_", "1", "A"}

Strings(alphabet, n) == UNION {[1..k -> alphabet] : k \in 0..n}

(***************************************************************************)
(* Tokens.  A token is a record: its variant (kind), the variant of its    *)
(* payload enum (name, "" when the payload is text) and its text (<<>>     *)
(* when the payload is an enum).                                           *)
(***************************************************************************)
Tok(kind, name, text) == [kind |-> kind, name |-> name, text |-> text]

Identifier(value) == Tok("Identifier", "", value)

Constant(value) == Tok("Constant", "", value)

Keyword(k) == Tok("Keyword", k, <<>>)

Symbol(s) == Tok("Symbol", s, <<>>)

Comment(c) == Tok("Comment", c, <<>>)

\* the token field of a ReadState that has none
NoToken == Tok("None", "", <<>>)

Ok(t) == [ok |-> TRUE, token |-> t, err |-> <<>>]

Err(value) == [ok |-> FALSE, token |-> NoToken, err |-> value]

(***************************************************************************)
(* check_for_symbol: Option<SymbolToken>, "None" for None.                 *)
(***************************************************************************)
CheckForSymbol(ch) ==
    CASE ch = "(" -> "OpenParen"
      [] ch = ")" -> "CloseParen"
      [] ch = "{" -> "OpenBrace"
      [] ch = "}" -> "CloseBrace"
      [] ch = ";" -> "Semicolon"
      [] ch = "\"" -> "Quote"
      [] ch = "/" -> "CommentSymbol"
      [] ch \in {"\n", " ", "\t"} -> "Whitespace"
      [] ch = "-" -> "Minus"
      [] ch = "~" -> "Tilde"
      [] OTHER -> "None"

(***************************************************************************)
(* The two regular expressions of match_identifier_or_constant, on ASCII   *)
(* text: \w is [a-zA-Z0-9_], and \b before $ holds when the last character *)
(* is a word character.                                                    *)
(***************************************************************************)
IsWordChar(c) == c \in Lower \cup Upper \cup Digits \cup {"_"}

WordBoundaryAtEnd(value) == Len(value) >= 1 /\ IsWordChar(value[Len(value)])

\* ^[a-zA-Z_]\w*\b$
IdentifierIsMatch(value) ==
    /\ Len(value) >= 1
    /\ value[1] \in Lower \cup Upper \cup {"_"}
    /\ \A k \in 2..Len(value) : IsWordChar(value[k])
    /\ WordBoundaryAtEnd(value)

\* ^[0-9]+\b$
ConstantIsMatch(value) ==
    /\ Len(value) >= 1
    /\ \A k \in 1..Len(value) : value[k] \in Digits
    /\ WordBoundaryAtEnd(value)

MatchIdentifierOrConstant(value) ==
    IF IdentifierIsMatch(value) THEN Ok(Identifier(value))
    ELSE IF ConstantIsMatch(value) THEN Ok(Constant(value))
    ELSE Err(value)

\* a bug: the keyword arms are missing, every lexeme goes to the patterns
MatchNonSymbolToken_NoKeywords(value) == MatchIdentifierOrConstant(value)

MatchNonSymbolToken(value) ==
    CASE value = <<"i","n","t">> -> Ok(Keyword("Int"))
      [] value = <<"v","o","i","d">> -> Ok(Keyword("Void"))
      [] value = <<"r","e","t","u","r","n">> -> Ok(Keyword("Return"))
      [] OTHER -> MatchIdentifierOrConstant(value)

(***************************************************************************)
(* The texts lex is run on: every text over Alphabet up to MaxLen, every   *)
(* text over WordAlphabet up to MaxWord, and the texts below.              *)
(***************************************************************************)
\* int main(void){return 2;}
RoundTripSrc ==
    <<"i","n","t"," ","m","a","i","n","(","v","o","i","d",")","{",
      "r","e","t","u","r","n"," ","2",";","}">>

\* // hello<LF>int x;
LineCommentSrc ==
    <<"/","/"," ","h","e","l","l","o","\n","i","n","t"," ","x",";">>

\* /***/
StarBlockSrc == <<"/","*","*","*","/">>

\* /* a **/;
StarBlockSrc2 == <<"/","*"," ","a"," ","*","*","/",";">>

\* /*a*/-1;
BlockThenCodeSrc == <<"/","*","a","*","/","-","1",";">>

\* /***/x/* */
SwallowSrc == <<"/","*","*","*","/","x","/","*"," ","*","/">>

\* ~(---2)<TAB>"
MiscSrc == <<"~","(","-","-","-","2",")","\t","\"">>

Scenarios == {RoundTripSrc, LineCommentSrc, StarBlockSrc, StarBlockSrc2,
              BlockThenCodeSrc, SwallowSrc, MiscSrc}

Inputs == Strings(Alphabet, MaxLen) \cup Strings(WordAlphabet, MaxWord) \cup Scenarios

(***************************************************************************)
(* remaining_chars.                                                        *)
(***************************************************************************)
HasNext == pos < Len(src)

NextChar == src[pos + 1]

\* h with a next() appended: the position returned (Len(src) + 1 for None)
LogNext(h, p, by) == Append(h, [at |-> p, by |-> by, peek |-> FALSE])

\* h with a peek() on a clone appended
LogPeek(h, p, by) == Append(h, [at |-> p, by |-> by, peek |-> TRUE])

Panicked(msg) ==
    /\ pc' = "panicked"
    /\ panic' = msg

(***************************************************************************)
(* consume, ReadState::Ready.                                              *)
(***************************************************************************)
ReadyEof ==
    /\ pc = "consume" /\ state = "Ready"
    /\ ~HasNext
    /\ state' = "Exit"
    /\ reads' = LogNext(reads, pos + 1, "Ready")
    /\ UNCHANGED <<src, pos, current_value, token, comment_value, vec, pc, panic,
                   tok_start, starts>>
    /\ UNCHANGED postVars
    /\ UNCHANGED emitVars

\* a bug: the '/' is finished as a symbol token of its own
ReadyComment_EmitsSymbol ==
    /\ pc = "consume" /\ state = "Ready"
    /\ HasNext
    /\ CheckForSymbol(NextChar) = "CommentSymbol"
    /\ state' = "Done"
    /\ token' = Symbol("CommentSymbol")
    /\ pos' = pos + 1
    /\ reads' = LogNext(reads, pos + 1, "Ready")
    /\ tok_start' = pos + 1
    /\ UNCHANGED <<src, current_value, comment_value, vec, pc, panic, starts>>
    /\ UNCHANGED postVars
    /\ UNCHANGED emitVars

ReadyComment ==
    /\ pc = "consume" /\ state = "Ready"
    /\ HasNext
    /\ CheckForSymbol(NextChar) = "CommentSymbol"
    /\ state' = "HandlingComment"
    /\ comment_value' = "PendingComment"
    /\ pos' = pos + 1
    /\ reads' = LogNext(reads, pos + 1, "Ready")
    /\ tok_start' = pos + 1
    /\ UNCHANGED <<src, current_value, token, vec, pc, panic, starts>>
    /\ UNCHANGED postVars
    /\ UNCHANGED emitVars

\* a bug: Ready pushes the symbol's token itself and stays in Ready
ReadySymbol_PushesDirectly ==
    /\ pc = "consume" /\ state = "Ready"
    /\ HasNext
    /\ CheckForSymbol(NextChar) \notin {"None", "CommentSymbol"}
    /\ vec' = Append(vec, Symbol(CheckForSymbol(NextChar)))
    /\ starts' = Append(starts, pos + 1)
    /\ pos' = pos + 1
    /\ reads' = LogNext(reads, pos + 1, "Ready")
    /\ tok_start' = pos + 1
    /\ UNCHANGED <<src, state, current_value, token, comment_value, pc, panic>>
    /\ UNCHANGED postVars
    /\ UNCHANGED emitVars

ReadySymbol ==
    /\ pc = "consume" /\ state = "Ready"
    /\ HasNext
    /\ CheckForSymbol(NextChar) \notin {"None", "CommentSymbol"}
    /\ state' = "Done"
    /\ token' = Symbol(CheckForSymbol(NextChar))
    /\ pos' = pos + 1
    /\ reads' = LogNext(reads, pos + 1, "Ready")
    /\ tok_start' = pos + 1
    /\ UNCHANGED <<src, current_value, comment_value, vec, pc, panic, starts>>
    /\ UNCHANGED postVars
    /\ UNCHANGED emitVars

ReadyBuilding ==
    /\ pc = "consume" /\ state = "Ready"
    /\ HasNext
    /\ CheckForSymbol(NextChar) = "None"
    /\ state' = "Building"
    /\ current_value' = <<NextChar>>
    /\ pos' = pos + 1
    /\ reads' = LogNext(reads, pos + 1, "Ready")
    /\ tok_start' = pos + 1
    /\ UNCHANGED <<src, token, comment_value, vec, pc, panic, starts>>
    /\ UNCHANGED postVars
    /\ UNCHANGED emitVars

(***************************************************************************)
(* consume, ReadState::HandlingComment with PendingComment.                *)
(***************************************************************************)
PendingLine ==
    /\ pc = "consume" /\ state = "HandlingComment"
    /\ comment_value = "PendingComment"
    /\ HasNext /\ NextChar = "/"
    /\ comment_value' = "LineComment"
    /\ pos' = pos + 1
    /\ reads' = LogNext(reads, pos + 1, "HandlingComment")
    /\ UNCHANGED <<src, state, current_value, token, vec, pc, panic, tok_start, starts>>
    /\ UNCHANGED postVars
    /\ UNCHANGED emitVars

PendingBlock ==
    /\ pc = "consume" /\ state = "HandlingComment"
    /\ comment_value = "PendingComment"
    /\ HasNext /\ NextChar = "*"
    /\ comment_value' = "BlockComment"
    /\ pos' = pos + 1
    /\ reads' = LogNext(reads, pos + 1, "HandlingComment")
    /\ UNCHANGED <<src, state, current_value, token, vec, pc, panic, tok_start, starts>>
    /\ UNCHANGED postVars
    /\ UNCHANGED emitVars

PendingImpossible ==
    /\ pc = "consume" /\ state = "HandlingComment"
    /\ comment_value = "PendingComment"
    /\ HasNext /\ NextChar \notin {"/", "*"}
    /\ Panicked("Impossible comment value")
    /\ pos' = pos + 1
    /\ reads' = LogNext(reads, pos + 1, "HandlingComment")
    /\ UNCHANGED <<src, state, current_value, token, comment_value, vec, tok_start, starts>>
    /\ UNCHANGED postVars
    /\ UNCHANGED emitVars

PendingEof ==
    /\ pc = "consume" /\ state = "HandlingComment"
    /\ comment_value = "PendingComment"
    /\ ~HasNext
    /\ Panicked("Unexpected EOF")
    /\ reads' = LogNext(reads, pos + 1, "HandlingComment")
    /\ UNCHANGED <<src, pos, state, current_value, token, comment_value, vec,
                   tok_start, starts>>
    /\ UNCHANGED postVars
    /\ UNCHANGED emitVars

(***************************************************************************)
(* consume, ReadState::HandlingComment with LineComment.                   *)
(***************************************************************************)
\* a bug: the line feed is seen with a peek and left for Ready
LineEnd_LeavesLineFeed ==
    /\ pc = "consume" /\ state = "HandlingComment"
    /\ comment_value = "LineComment"
    /\ HasNext /\ NextChar = "\n"
    /\ state' = "Done"
    /\ token' = Comment("LineComment")
    /\ reads' = LogPeek(reads, pos + 1, "HandlingComment")
    /\ UNCHANGED <<src, pos, current_value, comment_value, vec, pc, panic, tok_start, starts>>
    /\ UNCHANGED postVars
    /\ UNCHANGED emitVars

LineEnd ==
    /\ pc = "consume" /\ state = "HandlingComment"
    /\ comment_value = "LineComment"
    /\ HasNext /\ NextChar = "\n"
    /\ state' = "Done"
    /\ token' = Comment("LineComment")
    /\ pos' = pos + 1
    /\ reads' = LogNext(reads, pos + 1, "HandlingComment")
    /\ UNCHANGED <<src, current_value, comment_value, vec, pc, panic, tok_start, starts>>
    /\ UNCHANGED postVars
    /\ UNCHANGED emitVars

\* a bug: the line comment looks at the next character without taking it
LineSkip_Peeks ==
    /\ pc = "consume" /\ state = "HandlingComment"
    /\ comment_value = "LineComment"
    /\ HasNext
    /\ NextChar # "\n"
    /\ UNCHANGED vars

LineSkip ==
    /\ pc = "consume" /\ state = "HandlingComment"
    /\ comment_value = "LineComment"
    /\ HasNext /\ NextChar # "\n"
    /\ pos' = pos + 1
    /\ reads' = LogNext(reads, pos + 1, "HandlingComment")
    /\ UNCHANGED <<src, state, current_value, token, comment_value, vec, pc, panic,
                   tok_start, starts>>
    /\ UNCHANGED postVars
    /\ UNCHANGED emitVars

LineEof ==
    /\ pc = "consume" /\ state = "HandlingComment"
    /\ comment_value = "LineComment"
    /\ ~HasNext
    /\ Panicked("Unexpected EOF")
    /\ reads' = LogNext(reads, pos + 1, "HandlingComment")
    /\ UNCHANGED <<src, pos, state, current_value, token, comment_value, vec,
                   tok_start, starts>>
    /\ UNCHANGED postVars
    /\ UNCHANGED emitVars

(***************************************************************************)
(* consume, ReadState::HandlingComment with BlockComment.  One transition  *)
(* calls next() once, and once more when the first character is '*'.       *)
(***************************************************************************)
BlockEof ==
    /\ pc = "consume" /\ state = "HandlingComment"
    /\ comment_value = "BlockComment"
    /\ ~HasNext
    /\ Panicked("Unexpected EOF")
    /\ reads' = LogNext(reads, pos + 1, "HandlingComment")
    /\ UNCHANGED <<src, pos, state, current_value, token, comment_value, vec,
                   tok_start, starts>>
    /\ UNCHANGED postVars
    /\ UNCHANGED emitVars

BlockStarEof ==
    /\ pc = "consume" /\ state = "HandlingComment"
    /\ comment_value = "BlockComment"
    /\ HasNext /\ NextChar = "*"
    /\ pos + 1 = Len(src)
    /\ Panicked("Unexpected EOF")
    /\ pos' = pos + 1
    /\ reads' = LogNext(LogNext(reads, pos + 1, "HandlingComment"),
                        pos + 2, "HandlingComment")
    /\ UNCHANGED <<src, state, current_value, token, comment_value, vec,
                   tok_start, starts>>
    /\ UNCHANGED postVars
    /\ UNCHANGED emitVars

BlockEnd ==
    /\ pc = "consume" /\ state = "HandlingComment"
    /\ comment_value = "BlockComment"
    /\ HasNext /\ NextChar = "*"
    /\ pos + 2 <= Len(src) /\ src[pos + 2] = "/"
    /\ state' = "Done"
    /\ token' = Comment("BlockComment")
    /\ pos' = pos + 2
    /\ reads' = LogNext(LogNext(reads, pos + 1, "HandlingComment"),
                        pos + 2, "HandlingComment")
    /\ UNCHANGED <<src, current_value, comment_value, vec, pc, panic, tok_start, starts>>
    /\ UNCHANGED postVars
    /\ UNCHANGED emitVars

BlockStarSkip ==
    /\ pc = "consume" /\ state = "HandlingComment"
    /\ comment_value = "BlockComment"
    /\ HasNext /\ NextChar = "*"
    /\ pos + 2 <= Len(src) /\ src[pos + 2] # "/"
    /\ pos' = pos + 2
    /\ reads' = LogNext(LogNext(reads, pos + 1, "HandlingComment"),
                        pos + 2, "HandlingComment")
    /\ UNCHANGED <<src, state, current_value, token, comment_value, vec, pc, panic,
                   tok_start, starts>>
    /\ UNCHANGED postVars
    /\ UNCHANGED emitVars

BlockSkip ==
    /\ pc = "consume" /\ state = "HandlingComment"
    /\ comment_value = "BlockComment"
    /\ HasNext /\ NextChar # "*"
    /\ pos' = pos + 1
    /\ reads' = LogNext(reads, pos + 1, "HandlingComment")
    /\ UNCHANGED <<src, state, current_value, token, comment_value, vec, pc, panic,
                   tok_start, starts>>
    /\ UNCHANGED postVars
    /\ UNCHANGED emitVars

(***************************************************************************)
(* consume, ReadState::Building.  The next character is peeked on a clone  *)
(* of remaining_chars.  The lexeme ends at the end of the text, at a       *)
(* symbol character, or at a space (which is a symbol character already).  *)
(***************************************************************************)
\* a bug: only the space test is made, a symbol character does not end the lexeme
AtDelimiter_SpaceOnly ==
    IF ~HasNext THEN TRUE ELSE NextChar = " "

AtDelimiter ==
    IF ~HasNext THEN TRUE
    ELSE IF CheckForSymbol(NextChar) # "None" THEN TRUE
    ELSE NextChar = " "

\* a bug: the delimiter is taken with next() on remaining_chars itself
BuildingDone_ConsumesDelimiter ==
    /\ pc = "consume" /\ state = "Building"
    /\ AtDelimiter
    /\ MatchNonSymbolToken(current_value).ok
    /\ state' = "Done"
    /\ token' = MatchNonSymbolToken(current_value).token
    /\ current_value' = <<>>
    /\ pos' = IF HasNext THEN pos + 1 ELSE pos
    /\ reads' = LogNext(reads, pos + 1, "Building")
    /\ UNCHANGED <<src, comment_value, vec, pc, panic, tok_start, starts>>
    /\ UNCHANGED postVars
    /\ UNCHANGED emitVars

BuildingDone ==
    /\ pc = "consume" /\ state = "Building"
    /\ AtDelimiter
    /\ MatchNonSymbolToken(current_value).ok
    /\ state' = "Done"
    /\ token' = MatchNonSymbolToken(current_value).token
    /\ current_value' = <<>>
    /\ reads' = LogPeek(reads, pos + 1, "Building")
    /\ UNCHANGED <<src, pos, comment_value, vec, pc, panic, tok_start, starts>>
    /\ UNCHANGED postVars
    /\ UNCHANGED emitVars

\* expect on the Err of match_non_symbol_token; current_value stays the lexeme
BuildingError ==
    /\ pc = "consume" /\ state = "Building"
    /\ AtDelimiter
    /\ ~MatchNonSymbolToken(current_value).ok
    /\ Panicked("Non-symbol token matching raised an error")
    /\ reads' = LogPeek(reads, pos + 1, "Building")
    /\ UNCHANGED <<src, pos, state, current_value, token, comment_value, vec,
                   tok_start, starts>>
    /\ UNCHANGED postVars
    /\ UNCHANGED emitVars

BuildingPush ==
    /\ pc = "consume" /\ state = "Building"
    /\ ~AtDelimiter
    /\ current_value' = Append(current_value, NextChar)
    /\ pos' = pos + 1
    /\ reads' = LogNext(LogPeek(reads, pos + 1, "Building"), pos + 1, "Building")
    /\ UNCHANGED <<src, state, token, comment_value, vec, pc, panic, tok_start, starts>>
    /\ UNCHANGED postVars
    /\ UNCHANGED emitVars

(***************************************************************************)
(* consume, ReadState::Done and ReadState::Exit.                           *)
(***************************************************************************)
\* a bug: a whitespace token right after a whitespace token is dropped
DonePush_CoalescesWhitespace ==
    /\ pc = "consume" /\ state = "Done"
    /\ IF token = Symbol("Whitespace") /\ vec # <<>> /\ vec[Len(vec)] = Symbol("Whitespace")
       THEN UNCHANGED <<vec, starts>>
       ELSE vec' = Append(vec, token) /\ starts' = Append(starts, tok_start)
    /\ token' = NoToken
    /\ state' = "Ready"
    /\ UNCHANGED <<src, pos, current_value, comment_value, pc, panic, reads, tok_start>>
    /\ UNCHANGED postVars
    /\ UNCHANGED emitVars

DonePush ==
    /\ pc = "consume" /\ state = "Done"
    /\ vec' = Append(vec, token)
    /\ starts' = Append(starts, tok_start)
    /\ token' = NoToken
    /\ state' = "Ready"
    /\ UNCHANGED <<src, pos, current_value, comment_value, pc, panic, reads, tok_start>>
    /\ UNCHANGED postVars
    /\ UNCHANGED emitVars

\* Exit => return vec, and lex hands it to postprocess_tokens
ExitReturn ==
    /\ pc = "consume" /\ state = "Exit"
    /\ pc' = "postprocess"
    /\ tokens' = vec
    /\ i' = 0
    /\ length' = Len(vec)
    /\ input' = vec
    /\ merges' = 0
    /\ UNCHANGED consumeVars
    /\ UNCHANGED panic
    /\ UNCHANGED emitVars

(***************************************************************************)
(* postprocess_tokens.  Indices are those of the code, from 0.             *)
(***************************************************************************)
At(ts, k) == ts[k + 1]

IsMinus(t) == t = Symbol("Minus")

\* usize subtraction as a release build computes it
WrappingSub(a, b) == IF a >= b THEN a - b ELSE UsizeMax - (b - a) + 1

\* the loop condition i < length - 1
LoopCond(k, len) == k < WrappingSub(len, 1)

\* the indices the loop body reads at k are inside ts
IndexOk(ts, k) ==
    /\ k < Len(ts)
    /\ IsMinus(At(ts, k)) => k + 1 < Len(ts)

IsMinusPair(ts, k) == IsMinus(At(ts, k)) /\ IsMinus(At(ts, k + 1))

\* a bug: tokens.remove(k) after tokens[k] = Decrement
MergeAt_RemovesFirst(ts, k) ==
    SubSeq(ts, 1, k) \o SubSeq(ts, k + 2, Len(ts))

\* tokens[k] = Decrement; tokens.remove(k + 1)
MergeAt(ts, k) ==
    SubSeq(ts, 1, k) \o <<Symbol("Decrement")>> \o SubSeq(ts, k + 3, Len(ts))

\* a bug: i += 2, the scan steps over the token after the one it looked at
NextIndex_SkipsOne(k) == k + 2

\* i += 1
NextIndex(k) == k + 1

\* length - 1 overflows: a build with overflow checks panics at the subtraction
PostOverflow ==
    /\ pc = "postprocess"
    /\ length < 1
    /\ Panicked("attempt to subtract with overflow")
    /\ UNCHANGED consumeVars
    /\ UNCHANGED postVars
    /\ UNCHANGED emitVars

\* tokens[i] or tokens[i + 1] is outside the vector
PostIndexPanic ==
    /\ pc = "postprocess"
    /\ LoopCond(i, length)
    /\ ~IndexOk(tokens, i)
    /\ Panicked("index out of bounds")
    /\ UNCHANGED consumeVars
    /\ UNCHANGED postVars
    /\ UNCHANGED emitVars

PostIter ==
    /\ pc = "postprocess"
    /\ length >= 1
    /\ LoopCond(i, length)
    /\ IndexOk(tokens, i)
    /\ IF IsMinusPair(tokens, i)
       THEN /\ tokens' = MergeAt(tokens, i)
            /\ length' = length - 1
            /\ merges' = merges + 1
       ELSE UNCHANGED <<tokens, length, merges>>
    /\ i' = NextIndex(i)
    /\ UNCHANGED consumeVars
    /\ UNCHANGED <<pc, panic, input>>
    /\ UNCHANGED emitVars

PostReturn ==
    /\ pc = "postprocess"
    /\ length >= 1
    /\ ~LoopCond(i, length)
    /\ pc' = "returned"
    /\ UNCHANGED consumeVars
    /\ UNCHANGED postVars
    /\ UNCHANGED panic
    /\ UNCHANGED emitVars

\* postprocess_tokens as a function: the loop from index k on
RECURSIVE PostLoop(_, _, _)
PostLoop(ts, k, len) ==
    IF ~LoopCond(k, len) THEN [ok |-> TRUE, tokens |-> ts]
    ELSE IF ~IndexOk(ts, k) THEN [ok |-> FALSE, tokens |-> ts]
    ELSE IF IsMinusPair(ts, k) THEN PostLoop(MergeAt(ts, k), NextIndex(k), len - 1)
    ELSE PostLoop(ts, NextIndex(k), len)

PostprocessTokens(ts) == PostLoop(ts, 0, Len(ts))

(***************************************************************************)
(* lex on a text.                                                          *)
(***************************************************************************)
Init ==
    /\ src \in Inputs
    /\ pos = 0
    /\ state = "Ready"
    /\ current_value = <<>>
    /\ token = NoToken
    /\ comment_value = "PendingComment"
    /\ vec = <<>>
    /\ pc = "consume"
    /\ panic = ""
    /\ tokens = <<>>
    /\ i = 0
    /\ length = 0
    /\ input = <<>>
    /\ merges = 0
    /\ reads = <<>>
    /\ tok_start = 0
    /\ starts = <<>>
    /\ EmitIdle

Consume ==
    \/ ReadyEof \/ ReadyComment \/ ReadySymbol \/ ReadyBuilding
    \/ PendingLine \/ PendingBlock \/ PendingImpossible \/ PendingEof
    \/ LineEnd \/ LineSkip \/ LineEof
    \/ BlockEof \/ BlockStarEof \/ BlockEnd \/ BlockStarSkip \/ BlockSkip
    \/ BuildingDone \/ BuildingError \/ BuildingPush
    \/ DonePush

Postprocess == PostOverflow \/ PostIndexPanic \/ PostIter \/ PostReturn

Next == Consume \/ ExitReturn \/ Postprocess

Spec == Init /\ [][Next]_vars

\* the texts of the runs whose termination is checked
MaxLiveLen == 4

LiveInputs == Strings(Alphabet, MaxLiveLen)

LiveInit == Init /\ src \in LiveInputs

\* lex runs alone on its thread: a step that can be taken is taken
LiveSpec == LiveInit /\ [][Next]_vars /\ WF_vars(Next)

(***************************************************************************)
(* postprocess_tokens on a token sequence of its own.                      *)
(***************************************************************************)
PostAlphabet == {Symbol("Minus"), Symbol("Decrement"), Symbol("Whitespace")}

PostInit ==
    /\ input \in Strings(PostAlphabet, MaxToks)
    /\ tokens = input
    /\ i = 0
    /\ length = Len(input)
    /\ merges = 0
    /\ pc = "postprocess"
    /\ panic = ""
    /\ src = <<>>
    /\ pos = 0
    /\ state = "Exit"
    /\ current_value = <<>>
    /\ token = NoToken
    /\ comment_value = "PendingComment"
    /\ vec = input
    /\ reads = <<>>
    /\ tok_start = 0
    /\ starts = <<>>
    /\ EmitIdle

PostSpec == PostInit /\ [][Postprocess]_vars

(***************************************************************************)
(* The grammar of a text, read off the text alone: the characters outside  *)
(* comments are the supported ones, every '/' outside a comment opens //   *)
(* or /*, a line comment ends at the first line feed, a block comment at   *)
(* the first "*/" after its opener, and every maximal run of word          *)
(* characters outside comments is an identifier or a run of digits.        *)
(***************************************************************************)
WhitespaceChars == {" ", "\t", "\n"}

PunctuationChars == {"(", ")", "{", "}", ";", "-", "~"}

KeywordLexemes == {<<"i","n","t">>, <<"v","o","i","d">>, <<"r","e","t","u","r","n">>}

\* [a-zA-Z_] followed by word characters
RefIdentifier(w) ==
    /\ Len(w) >= 1
    /\ w[1] \notin Digits
    /\ \A k \in 1..Len(w) : IsWordChar(w[k])

\* one or more decimal digits
RefConstant(w) == Len(w) >= 1 /\ \A k \in 1..Len(w) : w[k] \in Digits

RefWord(w) == RefIdentifier(w) \/ RefConstant(w)

\* the scan of s from position k: ok when s follows the grammar, count the
\* number of non-whitespace characters outside comments
RECURSIVE RefScan(_, _, _, _, _)
RefScan(s, k, mode, w, n) ==
    IF k > Len(s)
    THEN [ok |-> mode = "code" /\ (w = <<>> \/ RefWord(w)), count |-> n]
    ELSE IF mode = "line"
    THEN RefScan(s, k + 1, IF s[k] = "\n" THEN "code" ELSE "line", <<>>, n)
    ELSE IF mode = "block"
    THEN IF s[k] = "*" /\ k + 1 <= Len(s) /\ s[k + 1] = "/"
         THEN RefScan(s, k + 2, "code", <<>>, n)
         ELSE RefScan(s, k + 1, "block", <<>>, n)
    ELSE IF IsWordChar(s[k])
    THEN RefScan(s, k + 1, "code", Append(w, s[k]), n + 1)
    ELSE IF w # <<>> /\ ~RefWord(w)
    THEN [ok |-> FALSE, count |-> n]
    ELSE IF s[k] = "/"
    THEN IF k + 1 <= Len(s) /\ s[k + 1] \in {"/", "*"}
         THEN RefScan(s, k + 2, IF s[k + 1] = "/" THEN "line" ELSE "block", <<>>, n)
         ELSE [ok |-> FALSE, count |-> n]
    ELSE IF s[k] \in WhitespaceChars
    THEN RefScan(s, k + 1, "code", <<>>, n)
    ELSE IF s[k] \in PunctuationChars
    THEN RefScan(s, k + 1, "code", <<>>, n + 1)
    ELSE [ok |-> FALSE, count |-> n]

\* a non-empty text that follows the grammar, every comment of it closed
WellFormed(s) == Len(s) >= 1 /\ RefScan(s, 1, "code", <<>>, 0).ok

CodeChars(s) == RefScan(s, 1, "code", <<>>, 0).count

LexemeLength(t) ==
    CASE t.kind \in {"Identifier", "Constant"} -> Len(t.text)
      [] t = Keyword("Int") -> 3
      [] t = Keyword("Void") -> 4
      [] t = Keyword("Return") -> 6
      [] t.kind = "Comment" -> 0
      [] t = Symbol("Whitespace") -> 0
      [] t = Symbol("Decrement") -> 2
      [] OTHER -> 1

RECURSIVE SumLengths(_)
SumLengths(ts) == IF ts = <<>> THEN 0 ELSE LexemeLength(Head(ts)) + SumLengths(Tail(ts))

\* the positions from k on where a '*' is immediately followed by '/'
Closings(s, k) == {c \in k..(Len(s) - 1) : s[c] = "*" /\ s[c + 1] = "/"}

Least(S) == CHOOSE x \in S : \A y \in S : x <= y

InBlockComment == state = "HandlingComment" /\ comment_value = "BlockComment"

(***************************************************************************)
(* C1.  On every text that follows the grammar lex returns, without        *)
(* aborting, and the lexeme lengths of the returned tokens (Whitespace and *)
(* Comment tokens 0, Decrement 2) add up to the number of non-whitespace   *)
(* characters of the text outside comments.                                *)
(***************************************************************************)
C1_TotalOnValidInput ==
    (pc \in {"panicked", "returned"} /\ WellFormed(src)) =>
        /\ pc = "returned"
        /\ SumLengths(tokens) = CodeChars(src)

(***************************************************************************)
(* C2.  A run of lex aborts only when (1) the finished lexeme matches no   *)
(* rule, (2) the text ends right after a '/', (3) the text ends inside a   *)
(* block comment that has no closing "*/", or (4) a '/' is followed by a   *)
(* character other than '/' and '*'.  In particular a line comment that    *)
(* runs to the end of the text does not abort.                             *)
(***************************************************************************)
C2_AbortsOnlyAsListed ==
    pc = "panicked" =>
        \/ /\ state = "Building"
           /\ ~RefWord(current_value)
        \/ /\ state = "HandlingComment"
           /\ tok_start = Len(src)
        \/ /\ InBlockComment
           /\ pos = Len(src)
           /\ Closings(src, tok_start + 2) = {}
        \/ /\ state = "HandlingComment"
           /\ tok_start < Len(src)
           /\ src[tok_start + 1] \notin {"/", "*"}

(***************************************************************************)
(* C3.  A block comment ends at the first '*' after its opener that is     *)
(* immediately followed by '/': the lexer is not in block-comment mode     *)
(* once it has read that '/', and the Comment(Block) token is finalized    *)
(* with the read position on that '/'.                                     *)
(***************************************************************************)
C3_BlockEndsAtFirstStarSlash ==
    /\ InBlockComment =>
           \A c \in Closings(src, tok_start + 2) : pos < c + 1
    /\ (state = "Done" /\ token = Comment("BlockComment")) =>
           /\ Closings(src, tok_start + 2) # {}
           /\ pos = Least(Closings(src, tok_start + 2)) + 1

(***************************************************************************)
(* C4.  A lexeme that fails the classification does not abort lex: the     *)
(* failure is handed to the caller as a value.                             *)
(***************************************************************************)
C4_ClassificationErrorIsAValue ==
    (state = "Building" /\ ~MatchNonSymbolToken(current_value).ok) => pc # "panicked"

\* the tokens of "int main(void){return 2;}", without and with Whitespace
RoundTripTokens ==
    <<Keyword("Int"), Identifier(<<"m","a","i","n">>), Symbol("OpenParen"),
      Keyword("Void"), Symbol("CloseParen"), Symbol("OpenBrace"),
      Keyword("Return"), Constant(<<"2">>), Symbol("Semicolon"),
      Symbol("CloseBrace")>>

RoundTripTokensWithWhitespace ==
    <<Keyword("Int"), Symbol("Whitespace"), Identifier(<<"m","a","i","n">>),
      Symbol("OpenParen"), Keyword("Void"), Symbol("CloseParen"),
      Symbol("OpenBrace"), Keyword("Return"), Symbol("Whitespace"),
      Constant(<<"2">>), Symbol("Semicolon"), Symbol("CloseBrace")>>

WithoutWhitespace(ts) == SelectSeq(ts, LAMBDA t : t # Symbol("Whitespace"))

\* C5 as claimed: lex of "int main(void){return 2;}" returns exactly the ten
\* tokens Keyword(Int), Identifier("main"), OpenParen, Keyword(Void),
\* CloseParen, OpenBrace, Keyword(Return), Constant("2"), Semicolon,
\* CloseBrace, with no other token in between.
C5_RoundTripTenTokens ==
    (pc = "returned" /\ src = RoundTripSrc) => tokens = RoundTripTokens

\* C5 as amended: lex of "int main(void){return 2;}" does not abort and
\* returns twelve tokens: the ten claimed ones in the claimed order, and one
\* Symbol(Whitespace) token at the place of each of the two spaces of the
\* text (after Keyword(Int) and after Keyword(Return)).
C5_RoundTripWithWhitespace ==
    src = RoundTripSrc =>
        /\ pc # "panicked"
        /\ pc = "returned" =>
               /\ tokens = RoundTripTokensWithWhitespace
               /\ WithoutWhitespace(tokens) = RoundTripTokens

C5_RoundTripReturned == pc = "returned" /\ src = RoundTripSrc /\ Len(tokens) = 12

LineFeeds(s, k) == {c \in k..Len(s) : s[c] = "\n"}

LineCommentTokens ==
    <<Comment("LineComment"), Keyword("Int"), Symbol("Whitespace"),
      Identifier(<<"x">>), Symbol("Semicolon")>>

(***************************************************************************)
(* C6.  A line comment is one Comment(LineComment) token: it is finalized  *)
(* with the read position on the first line feed after the "//", the line  *)
(* feed gives no token of its own, and the next token starts at the        *)
(* character after the line feed.  "// hello<LF>int x;" gives the comment  *)
(* token and then the tokens of "int x;".                                  *)
(***************************************************************************)
C6_LineCommentIsOneToken ==
    /\ (state = "Done" /\ token = Comment("LineComment")) =>
           /\ src[tok_start] = "/" /\ src[tok_start + 1] = "/"
           /\ LineFeeds(src, tok_start + 2) # {}
           /\ pos = Least(LineFeeds(src, tok_start + 2))
    /\ \A j \in 1..Len(vec) :
           vec[j] = Comment("LineComment") =>
               /\ LineFeeds(src, starts[j] + 2) # {}
               /\ j < Len(vec) =>
                      starts[j + 1] = Least(LineFeeds(src, starts[j] + 2)) + 1
    /\ (pc = "returned" /\ src = LineCommentSrc) =>
           /\ tokens = LineCommentTokens
           /\ WithoutWhitespace(Tail(tokens)) =
                  <<Keyword("Int"), Identifier(<<"x">>), Symbol("Semicolon")>>

C6_LineCommentReturned ==
    /\ pc = "returned" /\ src = LineCommentSrc
    /\ Len(SelectSeq(tokens, LAMBDA t : t = Comment("LineComment"))) = 1

RECURSIVE MinusRun(_)
\* the length of the run of Minus tokens ts starts with
MinusRun(ts) ==
    IF ts # <<>> /\ IsMinus(Head(ts)) THEN 1 + MinusRun(Tail(ts)) ELSE 0

RECURSIVE RefMerge(_)
RefMerge(ts) ==
    IF ts = <<>> THEN <<>>
    ELSE IF IsMinus(Head(ts))
    THEN LET n == MinusRun(ts)
         IN  [k \in 1..(n \div 2) |-> Symbol("Decrement")]
             \o [k \in 1..(n % 2) |-> Symbol("Minus")]
             \o RefMerge(SubSeq(ts, n + 1, Len(ts)))
    ELSE <<Head(ts)>> \o RefMerge(Tail(ts))

(***************************************************************************)
(* C7.  The merge pass turns each maximal run of n Minus tokens into       *)
(* n \div 2 Decrement tokens followed by n % 2 Minus tokens and keeps      *)
(* every other token, in order; the result is shorter than the input by    *)
(* the number of merges performed.                                         *)
(***************************************************************************)
C7_MergeOfRuns ==
    pc = "returned" =>
        /\ tokens = RefMerge(input)
        /\ Len(tokens) = Len(input) - merges

C7_RunsMerged ==
    /\ pc = "returned"
    /\ input = <<Symbol("Minus"), Symbol("Minus"), Symbol("Minus"),
                 Symbol("Whitespace"), Symbol("Minus")>>
    /\ merges = 1

NoAdjacentMinus(ts) ==
    \A k \in 1..(Len(ts) - 1) : ~(IsMinus(ts[k]) /\ IsMinus(ts[k + 1]))

(***************************************************************************)
(* C8.  The merge pass is idempotent: a second pass over the result of a   *)
(* pass returns it unchanged, and the result of a pass has no two adjacent *)
(* Minus tokens.                                                           *)
(***************************************************************************)
C8_MergeIdempotent ==
    pc = "returned" =>
        /\ PostprocessTokens(tokens) = [ok |-> TRUE, tokens |-> tokens]
        /\ NoAdjacentMinus(tokens)

C8_MergedWithMinusLeft ==
    /\ pc = "returned"
    /\ merges >= 2
    /\ \E k \in 1..Len(tokens) : IsMinus(tokens[k])

KeywordOf(w) ==
    CASE w = <<"i","n","t">> -> Keyword("Int")
      [] w = <<"v","o","i","d">> -> Keyword("Void")
      [] w = <<"r","e","t","u","r","n">> -> Keyword("Return")

(***************************************************************************)
(* C9.  A lexeme resolves to exactly one of Keyword, Identifier, Constant  *)
(* or a classification error: int, void and return to their Keyword and    *)
(* never to Identifier, any other lexeme of the identifier pattern to      *)
(* Identifier, a run of digits to Constant, anything else to the error     *)
(* with the lexeme; and no lexeme matches both patterns.                   *)
(***************************************************************************)
C9_ClassificationExclusive ==
    /\ state = "Building" =>
           /\ ~(IdentifierIsMatch(current_value) /\ ConstantIsMatch(current_value))
           /\ MatchNonSymbolToken(current_value) =
                  IF current_value \in KeywordLexemes
                  THEN Ok(KeywordOf(current_value))
                  ELSE IF RefIdentifier(current_value)
                  THEN Ok(Identifier(current_value))
                  ELSE IF RefConstant(current_value)
                  THEN Ok(Constant(current_value))
                  ELSE Err(current_value)
    /\ state = "Done" =>
           /\ token.kind \in {"Keyword", "Identifier", "Constant", "Symbol", "Comment"}
           /\ token.kind = "Identifier" =>
                  RefIdentifier(token.text) /\ token.text \notin KeywordLexemes
           /\ token.kind = "Constant" => RefConstant(token.text)
    /\ \A j \in 1..Len(vec) :
           vec[j].kind = "Identifier" => vec[j].text \notin KeywordLexemes

C9_KeywordClassified ==
    /\ state = "Done"
    /\ token = Keyword("Return")
    /\ \E j \in 1..Len(vec) : vec[j] = Identifier(<<"m","a","i","n">>)

\* the next() calls among the first j reads that returned a character
Consumed(j) == {k \in 1..j : ~reads[k].peek /\ reads[k].at <= Len(src)}

(***************************************************************************)
(* C10.  The text is consumed once, left to right: the k-th character      *)
(* next() returns is the k-th character of the text, Exit is reached with  *)
(* the whole text consumed, the tokens of vec start at increasing          *)
(* positions, and the only look-ahead is Building's peek of the one        *)
(* character at the read position, which stays unconsumed when it ends the *)
(* lexeme and is then the next character Ready reads.                      *)
(***************************************************************************)
C10_SinglePassLeftToRight ==
    /\ Cardinality(Consumed(Len(reads))) = pos
    /\ \A j \in 1..Len(reads) :
           /\ reads[j].at = Cardinality(Consumed(j - 1)) + 1
           /\ reads[j].peek => reads[j].by = "Building"
           /\ (reads[j].peek /\ j < Len(reads)) =>
                  /\ ~reads[j + 1].peek
                  /\ reads[j + 1].at = reads[j].at
                  /\ reads[j + 1].by \in {"Building", "Ready"}
    /\ (state = "Exit" \/ pc \in {"postprocess", "returned"}) => pos = Len(src)
    /\ (state = "Done" /\ token.kind \in {"Keyword", "Identifier", "Constant"}) =>
           /\ reads[Len(reads)].peek
           /\ reads[Len(reads)].at = pos + 1
    /\ Len(starts) = Len(vec)
    /\ \A j \in 1..Len(starts) :
           /\ 1 <= starts[j] /\ starts[j] <= pos
           /\ j < Len(starts) => starts[j] < starts[j + 1]

C10_DelimiterLeftForReady ==
    /\ pc = "consume" /\ state = "Ready"
    /\ Len(reads) >= 2
    /\ reads[Len(reads) - 1].peek
    /\ reads[Len(reads)].by = "Ready"
    /\ reads[Len(reads)].at <= Len(src)
    /\ Len(vec) >= 2

(***************************************************************************)
(* The emitter.  The tree: an operand is a record of its variant (kind),   *)
(* its integer (val: the immediate or the stack offset) and its register   *)
(* (reg); an instruction a record of its variant (op) and its fields.      *)
(* Text is a sequence of pieces; format! and push_str append pieces, and   *)
(* the line break "\n" is a piece of its own.                              *)
(***************************************************************************)
\* longest instruction sequence of a function that is enumerated
MaxInstr == 3

Operand(kind, val, reg) == [kind |-> kind, val |-> val, reg |-> reg]

Imm(c) == Operand("Imm", c, "")

Reg(r) == Operand("Reg", 0, r)

Stack(addr) == Operand("Stack", addr, "")

\* the operand the allocation pass should have replaced
Pseudo == Operand("Pseudo", 0, "")

NoOperand == Operand("None", 0, "")

Instr(op, s, d, operator, size) ==
    [op |-> op, src |-> s, dst |-> d, operator |-> operator, size |-> size]

Mov(s, d) == Instr("Mov", s, d, "", 0)

Ret == Instr("Ret", NoOperand, NoOperand, "", 0)

\* Unary(operator, operand): the operand is kept in dst
Unary(operator, operand) == Instr("Unary", NoOperand, operand, operator, 0)

AllocateStack(size) == Instr("AllocateStack", NoOperand, NoOperand, "", size)

Function(name, instructions) == [name |-> name, instructions |-> instructions]

\* a bug: the last arm renders the operand instead of panicking
DirectEmitOperand_RendersPseudo(a_operand) ==
    CASE a_operand.kind = "Imm" ->
             [ok |-> TRUE, text |-> <<"$", ToString(a_operand.val)>>]
      [] a_operand.kind = "Reg" /\ a_operand.reg = "AX" ->
             [ok |-> TRUE, text |-> <<"%eax">>]
      [] a_operand.kind = "Reg" /\ a_operand.reg = "R10" ->
             [ok |-> TRUE, text |-> <<"%r10d">>]
      [] a_operand.kind = "Stack" ->
             [ok |-> TRUE, text |-> <<ToString(a_operand.val), "(%rbp)">>]
      [] OTHER -> [ok |-> TRUE, text |-> <<"%pseudo">>]

\* direct_emit_operand: the text, or the panic of the last arm
DirectEmitOperand(a_operand) ==
    CASE a_operand.kind = "Imm" ->
             [ok |-> TRUE, text |-> <<"$", ToString(a_operand.val)>>]
      [] a_operand.kind = "Reg" /\ a_operand.reg = "AX" ->
             [ok |-> TRUE, text |-> <<"%eax">>]
      [] a_operand.kind = "Reg" /\ a_operand.reg = "R10" ->
             [ok |-> TRUE, text |-> <<"%r10d">>]
      [] a_operand.kind = "Stack" ->
             [ok |-> TRUE, text |-> <<ToString(a_operand.val), "(%rbp)">>]
      [] OTHER -> [ok |-> FALSE, text |-> <<>>]

DirectEmitOperator(a_operator) ==
    CASE a_operator = "Neg" -> "negl"
      [] a_operator = "Not" -> "notl"

\* emit_prologue
PrologueText == <<"    pushq %rbp", "\n", "    movq %rsp, %rbp", "\n">>

\* emit_epilogue
EpilogueText == <<"   movq %rbp, %rsp", "\n", "   popq %rbp", "\n">>

\* the two push_str of emit_function
FunctionHeaderText(name) == <<"   .globl ", name, "\n", name, ":", "\n">>

\* the push_str of emit_program
TrailerText == <<"   .section .note.GNU-stack,\"\",@progbits", "\n">>

MovText(s, d) ==
    <<"   movl    ">> \o DirectEmitOperand(s).text \o <<", ">> \o DirectEmitOperand(d).text

UnaryText(operator, operand) ==
    <<"   ", DirectEmitOperator(operator), "    ">> \o DirectEmitOperand(operand).text

AllocateStackText(size) == <<"  subq    $", ToString(size), ", %rsp">>

\* the push_str("\n") that ends emit_instructions
LineBreak == <<"\n">>

Instructions == a_program.instructions

HasInstruction == epc = "instructions" /\ idx < Len(Instructions)

Current == Instructions[idx + 1]

\* a bug: the directive and the label are emitted once per process, not per call
EmitFunctionHeader_OncePerProcess ==
    /\ epc = "function"
    /\ output' = IF run = 1 THEN output \o FunctionHeaderText(a_program.name) ELSE output
    /\ epc' = "prologue"
    /\ UNCHANGED <<a_program, idx, run, output0, first_output>>
    /\ UNCHANGED lexVars

EmitFunctionHeader ==
    /\ epc = "function"
    /\ output' = output \o FunctionHeaderText(a_program.name)
    /\ epc' = "prologue"
    /\ UNCHANGED <<a_program, idx, run, output0, first_output>>
    /\ UNCHANGED lexVars

EmitPrologue ==
    /\ epc = "prologue"
    /\ output' = output \o PrologueText
    /\ epc' = "instructions"
    /\ UNCHANGED <<a_program, idx, run, output0, first_output>>
    /\ UNCHANGED lexVars

\* a bug: a Mov equal to the instruction before it is taken as redundant
EmitMov_SkipsRepeated ==
    /\ HasInstruction
    /\ Current.op = "Mov"
    /\ DirectEmitOperand(Current.src).ok
    /\ DirectEmitOperand(Current.dst).ok
    /\ output' = IF idx >= 1 /\ Instructions[idx] = Current
                 THEN output
                 ELSE output \o MovText(Current.src, Current.dst) \o LineBreak
    /\ idx' = idx + 1
    /\ UNCHANGED <<a_program, epc, run, output0, first_output>>
    /\ UNCHANGED lexVars

EmitMov ==
    /\ HasInstruction
    /\ Current.op = "Mov"
    /\ DirectEmitOperand(Current.src).ok
    /\ DirectEmitOperand(Current.dst).ok
    /\ output' = output \o MovText(Current.src, Current.dst) \o LineBreak
    /\ idx' = idx + 1
    /\ UNCHANGED <<a_program, epc, run, output0, first_output>>
    /\ UNCHANGED lexVars

\* a bug: the epilogue is emitted for the first Ret of the function only
EmitRet_EpilogueOnce ==
    /\ HasInstruction
    /\ Current.op = "Ret"
    /\ output' = IF \E k \in 1..idx : Instructions[k].op = "Ret"
                 THEN output \o <<"   ret">> \o LineBreak
                 ELSE output \o EpilogueText \o <<"   ret">> \o LineBreak
    /\ idx' = idx + 1
    /\ UNCHANGED <<a_program, epc, run, output0, first_output>>
    /\ UNCHANGED lexVars

EmitRet ==
    /\ HasInstruction
    /\ Current.op = "Ret"
    /\ output' = output \o EpilogueText \o <<"   ret">> \o LineBreak
    /\ idx' = idx + 1
    /\ UNCHANGED <<a_program, epc, run, output0, first_output>>
    /\ UNCHANGED lexVars

EmitUnary ==
    /\ HasInstruction
    /\ Current.op = "Unary"
    /\ DirectEmitOperand(Current.dst).ok
    /\ output' = output \o UnaryText(Current.operator, Current.dst) \o LineBreak
    /\ idx' = idx + 1
    /\ UNCHANGED <<a_program, epc, run, output0, first_output>>
    /\ UNCHANGED lexVars

EmitAllocateStack ==
    /\ HasInstruction
    /\ Current.op = "AllocateStack"
    /\ output' = output \o AllocateStackText(Current.size) \o LineBreak
    /\ idx' = idx + 1
    /\ UNCHANGED <<a_program, epc, run, output0, first_output>>
    /\ UNCHANGED lexVars

\* panic!("invalid operand found in emitter stage"): the operands are
\* rendered before the instruction's push_str
EmitInvalidOperand ==
    /\ HasInstruction
    /\ \/ /\ Current.op = "Mov"
          /\ ~(DirectEmitOperand(Current.src).ok /\ DirectEmitOperand(Current.dst).ok)
       \/ /\ Current.op = "Unary"
          /\ ~DirectEmitOperand(Current.dst).ok
    /\ epc' = "panicked"
    /\ UNCHANGED <<a_program, output, idx, run, output0, first_output>>
    /\ UNCHANGED lexVars

\* a bug: the trailer is pushed before the function is emitted
EmitTrailer_First ==
    /\ epc = "instructions"
    /\ idx = Len(Instructions)
    /\ output' = SubSeq(output, 1, Len(output0)) \o TrailerText
                     \o SubSeq(output, Len(output0) + 1, Len(output))
    /\ epc' = "done"
    /\ UNCHANGED <<a_program, idx, run, output0, first_output>>
    /\ UNCHANGED lexVars

\* the for loop of emit_function is over: emit_program appends the trailer
EmitTrailer ==
    /\ epc = "instructions"
    /\ idx = Len(Instructions)
    /\ output' = output \o TrailerText
    /\ epc' = "done"
    /\ UNCHANGED <<a_program, idx, run, output0, first_output>>
    /\ UNCHANGED lexVars

\* the caller emits the same tree once more, into a buffer equal to the first
EmitAgain ==
    /\ epc = "done"
    /\ run = 1
    /\ first_output' = output
    /\ output' = output0
    /\ epc' = "function"
    /\ idx' = 0
    /\ run' = 2
    /\ UNCHANGED <<a_program, output0>>
    /\ UNCHANGED lexVars

EmitInstructions ==
    EmitMov \/ EmitRet \/ EmitUnary \/ EmitAllocateStack \/ EmitInvalidOperand

EmitWalk == EmitFunctionHeader \/ EmitPrologue \/ EmitInstructions \/ EmitTrailer

EmitNext == EmitWalk \/ EmitAgain

(***************************************************************************)
(* emit_program on a tree: every function of up to MaxInstr instructions   *)
(* over InstructionSet, and the function of the negation scenario, into an *)
(* empty buffer or one that holds a line already.                          *)
(***************************************************************************)
InstructionSet ==
    {Mov(Imm(2), Reg("AX")), Mov(Reg("AX"), Stack(-4)), Mov(Stack(-4), Reg("R10")),
     Mov(Pseudo, Reg("AX")), Mov(Imm(2), Pseudo),
     Unary("Neg", Reg("AX")), Unary("Not", Stack(-4)), Unary("Neg", Pseudo),
     Ret, AllocateStack(4)}

\* Function("main", [Mov(Imm 2, AX), Unary(Neg, AX), Ret])
NegationProgram ==
    Function("main", <<Mov(Imm(2), Reg("AX")), Unary("Neg", Reg("AX")), Ret>>)

Programs ==
    {Function(n, is) : n \in {"main", "f"}, is \in Strings(InstructionSet, MaxInstr)}
        \cup {NegationProgram}

InitialBuffers == {<<>>, <<"# earlier", "\n">>}

LexIdle ==
    /\ src = <<>>
    /\ pos = 0
    /\ state = "Exit"
    /\ current_value = <<>>
    /\ token = NoToken
    /\ comment_value = "PendingComment"
    /\ vec = <<>>
    /\ pc = "idle"
    /\ panic = ""
    /\ tokens = <<>>
    /\ i = 0
    /\ length = 0
    /\ input = <<>>
    /\ merges = 0
    /\ reads = <<>>
    /\ tok_start = 0
    /\ starts = <<>>

EmitInit ==
    /\ a_program \in Programs
    /\ output \in InitialBuffers
    /\ output0 = output
    /\ epc = "function"
    /\ idx = 0
    /\ run = 1
    /\ first_output = <<>>
    /\ LexIdle

EmitSpec == EmitInit /\ [][EmitNext]_vars

(***************************************************************************)
(* The text of the buffer, read as lines, and the lines each instruction   *)
(* stands for, written out for the operands of InstructionSet.             *)
(***************************************************************************)
IsPrefix(a, b) == Len(a) <= Len(b) /\ SubSeq(b, 1, Len(a)) = a

\* what the call has appended to the buffer it received
Appended == SubSeq(output, Len(output0) + 1, Len(output))

RECURSIVE LinesFrom(_, _, _)
\* the lines of buf from piece k on: each ended by a "\n", and the rest after the last
LinesFrom(buf, k, cur) ==
    IF k > Len(buf) THEN [lines |-> <<>>, rest |-> cur]
    ELSE IF buf[k] = "\n"
    THEN LET r == LinesFrom(buf, k + 1, <<>>)
         IN  [lines |-> <<cur>> \o r.lines, rest |-> r.rest]
    ELSE LinesFrom(buf, k + 1, Append(cur, buf[k]))

Lines(buf) == LinesFrom(buf, 1, <<>>).lines

\* buf is whole lines, none of them empty
WholeLines(buf) ==
    /\ LinesFrom(buf, 1, <<>>).rest = <<>>
    /\ \A k \in 1..Len(Lines(buf)) : Lines(buf)[k] # <<>>

RefOperand(o) ==
    CASE o = Imm(2) -> <<"$", "2">>
      [] o = Reg("AX") -> <<"%eax">>
      [] o = Reg("R10") -> <<"%r10d">>
      [] o = Stack(-4) -> <<"-4", "(%rbp)">>
      [] OTHER -> <<>>

RefInstrLines(ins) ==
    CASE ins.op = "Mov" ->
             <<<<"   movl    ">> \o RefOperand(ins.src) \o <<", ">> \o RefOperand(ins.dst)>>
      [] ins.op = "Unary" ->
             <<<<"   ", IF ins.operator = "Neg" THEN "negl" ELSE "notl", "    ">>
                   \o RefOperand(ins.dst)>>
      [] ins.op = "AllocateStack" -> <<<<"  subq    $", "4", ", %rsp">>>>
      [] ins.op = "Ret" -> <<<<"   movq %rbp, %rsp">>, <<"   popq %rbp">>, <<"   ret">>>>

RefHeaderLines(name) ==
    <<<<"   .globl ", name>>, <<name, ":">>, <<"    pushq %rbp">>, <<"    movq %rsp, %rbp">>>>

RefTrailerLine == <<"   .section .note.GNU-stack,\"\",@progbits">>

RECURSIVE RefBodyLines(_, _)
\* the lines of the first n instructions of is, in their order
RefBodyLines(is, n) ==
    IF n = 0 THEN <<>> ELSE RefBodyLines(is, n - 1) \o RefInstrLines(is[n])

HasPseudo(ins) ==
    \/ ins.op = "Mov" /\ (ins.src = Pseudo \/ ins.dst = Pseudo)
    \/ ins.op = "Unary" /\ ins.dst = Pseudo

CountOf(seq, x) == Cardinality({k \in 1..Len(seq) : seq[k] = x})

(***************************************************************************)
(* C11.  The lines a completed emit_program has appended are, in this      *)
(* order: the .globl directive of the function name, the label name:, the  *)
(* two prologue lines, the lines of each instruction in the order of the   *)
(* instruction sequence, and last the .note.GNU-stack trailer.  For        *)
(* Function("main", [Mov(Imm 2, AX), Unary(Neg, AX), Ret]) these are the   *)
(* directive, the label, pushq, movq, movl $2, %eax, negl %eax, the        *)
(* epilogue pair, ret and the trailer.                                     *)
(***************************************************************************)
C11_EmissionOrder ==
    epc = "done" =>
        /\ IsPrefix(output0, output)
        /\ WholeLines(Appended)
        /\ Lines(Appended) =
               RefHeaderLines(a_program.name)
                   \o RefBodyLines(Instructions, Len(Instructions))
                   \o <<RefTrailerLine>>
        /\ a_program = NegationProgram =>
               Appended =
                   <<"   .globl ", "main", "\n", "main", ":", "\n",
                     "    pushq %rbp", "\n", "    movq %rsp, %rbp", "\n",
                     "   movl    ", "$", "2", ", ", "%eax", "\n",
                     "   ", "negl", "    ", "%eax", "\n",
                     "   movq %rbp, %rsp", "\n", "   popq %rbp", "\n", "   ret", "\n",
                     "   .section .note.GNU-stack,\"\",@progbits", "\n">>

C11_NegationEmitted == epc = "done" /\ a_program = NegationProgram /\ run = 1

(***************************************************************************)
(* C12.  An instruction with a pseudo-register operand (Mov source, Mov    *)
(* destination or Unary operand) is never emitted: the emitter aborts at   *)
(* it with the buffer holding exactly the header, the prologue and the     *)
(* whole lines of the instructions before it, and no trailer.              *)
(***************************************************************************)
C12_AbortBeforePseudo ==
    /\ epc \in {"instructions", "done", "panicked"} =>
           \A j \in 1..idx : ~HasPseudo(Instructions[j])
    /\ epc = "done" => idx = Len(Instructions)
    /\ epc = "panicked" =>
           /\ idx < Len(Instructions)
           /\ HasPseudo(Instructions[idx + 1])
           /\ IsPrefix(output0, output)
           /\ WholeLines(Appended)
           /\ Lines(Appended) =
                  RefHeaderLines(a_program.name) \o RefBodyLines(Instructions, idx)

C12_AbortedAtPseudoDestination ==
    /\ epc = "panicked"
    /\ idx = 2
    /\ Instructions[3] = Mov(Imm(2), Pseudo)
    /\ Instructions[1] = Ret

StateRank ==
    CASE state = "Exit" -> 0
      [] state = "Ready" -> 1
      [] state = "Done" -> 2
      [] state \in {"Building", "HandlingComment"} -> 3

\* three for every character left, and the rank of the state
Measure == 3 * (Len(src) - pos) + StateRank

WordKinds == {"Identifier", "Constant", "Keyword"}

(***************************************************************************)
(* C14.  Every transition of consume is one of the stated ones: Exit is    *)
(* entered only from Ready and only at the end of the text; a transition   *)
(* out of Done goes to Ready and appends exactly the pending token; the    *)
(* token sequence changes in no other state; a transition out of Building  *)
(* goes to Building or Done, one out of HandlingComment to HandlingComment *)
(* or Done.                                                                *)
(***************************************************************************)
C14_TransitionRelation ==
    [][ /\ (state' = "Exit" /\ state # "Exit") => (state = "Ready" /\ ~HasNext)
        /\ (pc = "consume" /\ pc' = "consume" /\ state = "Done") =>
               (state' = "Ready" /\ vec' = Append(vec, token))
        /\ vec' # vec => (state = "Done" /\ Len(vec') = Len(vec) + 1)
        /\ state = "Building" => state' \in {"Building", "Done"}
        /\ state = "HandlingComment" => state' \in {"HandlingComment", "Done"}
        /\ state = "Ready" => state' \in {"Ready", "Done", "Building", "HandlingComment", "Exit"}
        /\ state = "Exit" => state' = "Exit" ]_vars

C14_AllStatesVisited ==
    /\ pc = "consume" /\ state = "Exit"
    /\ \E k \in 1..Len(vec) : vec[k].kind = "Comment"
    /\ \E k \in 1..Len(vec) : vec[k].kind \in WordKinds
    /\ \E k \in 1..Len(vec) : vec[k].kind = "Symbol"

(***************************************************************************)
(* C15.  Every run of consume on a finite text ends, in Exit or in an      *)
(* abort: every transition lowers a measure that counts three for each     *)
(* character left and ranks Building and HandlingComment above Done above  *)
(* Ready above Exit, so a transition that consumes nothing (Building to    *)
(* Done, Done to Ready, Ready to Exit) moves down the ranks.               *)
(***************************************************************************)
C15_Terminates ==
    /\ [][(pc = "consume" /\ pc' = "consume") => Measure' < Measure]_vars
    /\ <>(state = "Exit" \/ pc = "panicked")

C15_ExitAfterNonConsumingSteps ==
    /\ pc = "consume" /\ state = "Exit"
    /\ Len(src) = MaxLiveLen
    /\ Len(vec) >= 2
    /\ \E k \in 1..Len(vec) : vec[k].kind \in WordKinds

(***************************************************************************)
(* C16.  Every space, tab or line feed that Ready reads gives exactly one  *)
(* Symbol(Whitespace) token, placed in the sequence at the character's     *)
(* position: tokens are in the order of their positions, two whitespace    *)
(* characters in a row give two tokens, and a whitespace character that    *)
(* ended a lexeme gives its token right after the lexeme's token.          *)
(***************************************************************************)
C16_WhitespaceEmitted ==
    pc = "consume" =>
        /\ Len(starts) = Len(vec)
        /\ \A j \in 1..Len(starts) - 1 : starts[j] < starts[j + 1]
        /\ \A k \in 1..Len(reads) :
               (/\ reads[k].by = "Ready" /\ ~reads[k].peek
                /\ reads[k].at <= Len(src)
                /\ src[reads[k].at] \in WhitespaceChars) =>
                   LET at == reads[k].at
                       made == {j \in 1..Len(vec) : starts[j] = at}
                       pending == state = "Done" /\ tok_start = at
                   IN  /\ \A j \in made : vec[j] = Symbol("Whitespace")
                       /\ pending => token = Symbol("Whitespace")
                       /\ Cardinality(made) + (IF pending THEN 1 ELSE 0) = 1
        /\ \A j \in 1..Len(vec) :
               (/\ vec[j].kind \in WordKinds
                /\ starts[j] + LexemeLength(vec[j]) <= Len(src)
                /\ src[starts[j] + LexemeLength(vec[j])] \in WhitespaceChars
                /\ j < Len(vec)) =>
                   /\ vec[j + 1] = Symbol("Whitespace")
                   /\ starts[j + 1] = starts[j] + LexemeLength(vec[j])

C16_WhitespaceRunAfterLexeme ==
    /\ pc = "consume" /\ state = "Exit"
    /\ Len(vec) >= 3
    /\ vec[1].kind \in WordKinds
    /\ vec[2] = Symbol("Whitespace")
    /\ vec[3] = Symbol("Whitespace")

RECURSIVE LinesBefore(_, _)
\* the number of lines emitted before the lines of instruction j of is
LinesBefore(is, j) ==
    IF j = 1 THEN 4
    ELSE LinesBefore(is, j - 1) + (IF is[j - 1].op = "Ret" THEN 3 ELSE 1)

\* what the step from this state to the next has appended
StepAppended == SubSeq(output', Len(output) + 1, Len(output'))

(***************************************************************************)
(* C17.  For a function with k Ret instructions the appended text holds    *)
(* each of movq %rbp, %rsp / popq %rbp / ret exactly k times, as three     *)
(* lines in a row at the place of each Ret; the two prologue lines are     *)
(* there exactly once; every instruction after a Ret has its lines at its  *)
(* place too.                                                              *)
(***************************************************************************)
C17_EveryRetEmitsEpilogue ==
    epc = "done" =>
        LET ls == Lines(Appended)
            n == Len(Instructions)
            k == Cardinality({j \in 1..n : Instructions[j].op = "Ret"})
        IN  /\ CountOf(ls, <<"   movq %rbp, %rsp">>) = k
            /\ CountOf(ls, <<"   popq %rbp">>) = k
            /\ CountOf(ls, <<"   ret">>) = k
            /\ CountOf(ls, <<"    pushq %rbp">>) = 1
            /\ CountOf(ls, <<"    movq %rsp, %rbp">>) = 1
            /\ Len(ls) = LinesBefore(Instructions, n + 1) + 1
            /\ \A j \in 1..n :
                   LET at == LinesBefore(Instructions, j)
                   IN  IF Instructions[j].op = "Ret"
                       THEN /\ ls[at + 1] = <<"   movq %rbp, %rsp">>
                            /\ ls[at + 2] = <<"   popq %rbp">>
                            /\ ls[at + 3] = <<"   ret">>
                       ELSE <<ls[at + 1]>> = RefInstrLines(Instructions[j])

C17_TwoRetsEmitted ==
    /\ epc = "done"
    /\ Len(Instructions) = 3
    /\ Instructions[1].op = "Ret"
    /\ Instructions[2].op = "Unary"
    /\ Instructions[3].op = "Ret"

\* what C18 says of one step of the walk
AppendsOwnLines ==
    epc \in {"function", "prologue", "instructions"} =>
        /\ IsPrefix(output, output')
        /\ WholeLines(StepAppended)
        /\ (epc' # "panicked") => StepAppended # <<>>
        /\ (epc' = "panicked") => StepAppended = <<>>
        /\ (epc = "instructions" /\ idx' = idx + 1) =>
               Lines(StepAppended) = RefInstrLines(Current)

(***************************************************************************)
(* C18.  Every step of the walk leaves what the buffer held as a prefix of *)
(* what it holds after; what it appends is whole, non-empty lines, each    *)
(* ended by one line break; and what the step of an instruction appends is *)
(* the lines of that instruction, whatever its position and whatever was   *)
(* emitted before it.                                                      *)
(***************************************************************************)
C18_AppendOnlyStateless == [][AppendsOwnLines]_vars

C18_SameInstructionTwice ==
    /\ epc = "instructions"
    /\ idx = 3
    /\ Instructions[1] = Instructions[3]
    /\ Instructions[2] # Instructions[1]
    /\ Instructions[1].op = "Mov"
    /\ output0 # <<>>

(***************************************************************************)
(* C19.  postprocess_tokens stays inside the token sequence for every      *)
(* length, the empty sequence included: length - 1 does not wrap below     *)
(* zero, every index the loop reads is smaller than the current length,    *)
(* and the pass does not abort, so lex of the empty text returns.          *)
(***************************************************************************)
C19_MergeStaysInside ==
    /\ pc = "postprocess" =>
           /\ length >= 1
           /\ LoopCond(i, length) => IndexOk(tokens, i)
    /\ panic \notin {"attempt to subtract with overflow", "index out of bounds"}

\* the markers consume works with
Markers == {Symbol("CommentSymbol"), Comment("PendingComment")}

\* the character at p is inside the comment that is being read, pending or made
InComment(p) ==
    \/ state = "HandlingComment" /\ tok_start <= p
    \/ state = "Done" /\ token.kind = "Comment" /\ tok_start <= p
    \/ \E j \in 1..Len(vec) :
           /\ vec[j].kind = "Comment"
           /\ starts[j] <= p
           /\ j < Len(vec) => p < starts[j + 1]
           /\ (j = Len(vec) /\ state = "Done") => p < tok_start

(***************************************************************************)
(* C20.  The token sequence of consume, and the token pending in Done,     *)
(* never hold Symbol(CommentSymbol), Comment(PendingComment) or            *)
(* Symbol(Decrement); the result of lex holds no marker and exactly one    *)
(* Decrement for every merge of the merge pass; and every '/' consumed     *)
(* lies inside a Comment token (or the comment being read), no other token *)
(* starts at it.                                                           *)
(***************************************************************************)
C20_NoMarkerLeaks ==
    /\ \A k \in 1..Len(vec) : vec[k] \notin Markers \cup {Symbol("Decrement")}
    /\ state = "Done" => token \notin Markers \cup {Symbol("Decrement"), NoToken}
    /\ pc \in {"postprocess", "returned"} =>
           /\ \A k \in 1..Len(tokens) : tokens[k] \notin Markers
           /\ CountOf(tokens, Symbol("Decrement")) = merges
    /\ \A p \in 1..pos : src[p] = "/" => InComment(p)
    /\ \A j \in 1..Len(vec) : src[starts[j]] = "/" => vec[j].kind = "Comment"

C20_CommentAndDecrementReturned ==
    /\ pc = "returned"
    /\ Len(tokens) = 2
    /\ tokens[1].kind = "Comment"
    /\ tokens[2] = Symbol("Decrement")
    /\ merges = 1
====
